---- MODULE Spec2Model ----
(***************************************************************************)
(* A model of the Snyk mass broker configuration client (snyk_api.py) and  *)
(* of its command line driver (broker_mass_configure.py).                  *)
(*                                                                         *)
(* The remote service is the environment: it answers every request with a  *)
(* status code, and a status of 0 stands for a request that raised instead *)
(* of answering (requests' transport errors).  The client is sequential,   *)
(* so every loop iteration of the code is one action.                      *)
(*                                                                         *)
(* Eleven specifications share the module:                                 *)
(*   SpecOrgs    get_organizations_for_group, one action per page request  *)
(*   SpecAccess  validate_organization_access, one action per request      *)
(*   SpecLoops   both request loops, each run to its end                   *)
(*   Spec        configure_broker_for_organizations_bulk, one run          *)
(*   SpecTwice   the same workflow run twice against the same remote       *)
(*   SpecEach    configure_broker_for_organizations or                     *)
(*               mass_configure_broker, one action per organization        *)
(*   SpecRouting the three workflows: Spec or SpecEach                     *)
(*   SpecCli     main of broker_mass_configure.py, from the parsed command *)
(*               line to the exit status of the process                    *)
(*   SpecEntry   the bulk workflow called directly or by main              *)
(*   SpecGateway one call of one request-issuing operation of the client   *)
(*   SpecClient  the client as a library: SpecGateway or Spec              *)
(***************************************************************************)
EXTENDS Integers, Sequences, FiniteSets, TLC

VARIABLES
    \* ---- get_organizations_for_group
    pages,          \* the server: page url -> [status, data, next]
    url,            \* the url of the next request (a page index)
    all_orgs,       \* the organizations accumulated so far
    page,           \* the page counter of the loop
    g_requests,     \* the urls requested so far, in order
    g_pc,           \* "idle" | "loop" | "done" | "raised"
    g_result,       \* the returned list
    \* ---- validate_organization_access
    v_resp,         \* the server: version index -> status
    v_idx,          \* the index of the next version to try
    v_requests,     \* the versions requested so far, in order
    v_pc,           \* "idle" | "loop" | "done" | "raised"
    v_result,       \* the returned boolean
    \* ---- configuration of the client (SnykAPI.__init__)
    tenant_id,      \* the tenant id, or None
    source_org_id,  \* the source organization
    \* ---- the remote state
    group_orgs,     \* what the group listing returns
    connections,    \* the broker connections of the source organization, in order
    integrations,   \* the broker integrations: records [id, conn, org_id, integration_type]
    next_id,        \* the id the server gives to the next created integration
    \* ---- configure_broker_for_organizations_bulk
    conn_arg,       \* the broker_connection_id argument, or None
    broker_connection_id, \* the connection in use once resolved
    b_all_orgs,     \* all_orgs of the run
    source_integrations,  \* the listing of the connection taken at line 710
    source_integration,   \* the source organization's integration, or None
    target_orgs,    \* all_orgs without the source organization
    d_idx,          \* position of the deletion loop in source_integrations
    c_idx,          \* position of the creation loop in target_orgs
    success_list,
    failed_list,
    skipped_list,
    calls,          \* every request of the run that names an organization, in order
    pc,             \* "idle" | "delete" | "create" | "done" | "raised"
    result,         \* the returned dictionary
    run,            \* 1 in the first run, 2 in the second
    first_final,    \* what the first run left: [integrations, result, passed]
    \* ---- main of broker_mass_configure.py
    args,           \* the parsed command line
    cli_pc,         \* "idle" | "start" | "bulk" | "exit"
    selected_connection,  \* the connection chosen at lines 121-135, or None
    cli_results,    \* the local results of lines 63 and 148, or None (<<>>)
    cli_error,      \* the exception caught at line 173, or None
    exit_code,      \* the exit status of the process, -1 while it runs
    \* ---- one call of a single operation of the client
    gw_op,          \* the operation called
    gw_status,      \* the status the server answers its requests with
    gw_requests,    \* how many HTTP requests the call issued
    gw_out,         \* "raise", or what the call returned, see GatewayResult
    gw_pc,          \* "idle" | "call" | "done"
    \* ---- configure_broker_for_organizations and mass_configure_broker
    n_fn,           \* which of the two is called, or None
    n_orgs,         \* target_org_ids (org_ids)
    n_idx,          \* position of the loop in n_orgs
    n_results,      \* the dictionary results
    n_log,          \* what happened in each iteration, in order
    n_pc            \* "idle" | "loop" | "done" | "raised"

g_vars == <<pages, url, all_orgs, page, g_requests, g_pc, g_result>>
v_vars == <<v_resp, v_idx, v_requests, v_pc, v_result>>
cfg_vars == <<tenant_id, source_org_id, conn_arg>>
remote_vars == <<group_orgs, connections, integrations, next_id>>
b_vars == <<broker_connection_id, b_all_orgs, source_integrations, source_integration,
            target_orgs, d_idx, c_idx, success_list, failed_list, skipped_list,
            calls, pc, result, run, first_final>>
cli_vars == <<args, cli_pc, selected_connection, cli_results, cli_error, exit_code>>
gw_vars == <<gw_op, gw_status, gw_requests, gw_out, gw_pc>>
n_vars == <<n_fn, n_orgs, n_idx, n_results, n_log, n_pc>>
vars == <<g_vars, v_vars, cfg_vars, remote_vars, b_vars, cli_vars, gw_vars, n_vars>>

(***************************************************************************)
(* Bounds of the model and the finite universes the inputs are drawn from. *)
(***************************************************************************)
MaxPages == 2       \* pages the server holds
MaxPageLen == 2     \* organizations on one page
MaxFetch == 4       \* page requests explored when the next links form a cycle
MaxInts == 3        \* integrations on the connection before the run

Orgs == {"A", "B", "C"}
\* The group listing and the integrations range over every arrangement of Orgs, so one
\* choice of the source organization stands for all of them.
SourceOrgs == {"A"}
PageOrgs == {"A", "B"}
Conns == {"c1", "c2"}
Types == {"t1", "t2"}
None == "None"

\* Status codes a GET can answer; 0 is a request that raised.
GetStatus == {0, 200, 401, 403, 404, 500}
\* Status codes the DELETE of a broker integration can answer.
DeleteStatus == {0, 204, 404, 500}
\* Status codes the POST of a broker integration can answer.
CreateStatus == {0, 201, 200, 409}

Raised(status) == status = 0

RECURSIVE SeqsUpTo(_, _)
\* All sequences over S of length at most n.
SeqsUpTo(S, n) ==
    IF n = 0 THEN {<<>>}
    ELSE LET shorter == SeqsUpTo(S, n - 1)
         IN shorter \cup {Append(s, x) : s \in {t \in shorter : Len(t) = n - 1}, x \in S}

Range(s) == {s[k] : k \in DOMAIN s}
NoDup(s) == \A j, k \in DOMAIN s : j # k => s[j] # s[k]

(***************************************************************************)
(* get_organizations_for_group (snyk_api.py 125-200)                       *)
(***************************************************************************)
NoNext == 0

\* A response of the group listing endpoint.  Only a 200 carries data and links.
PageResponses ==
    {[status |-> 200, data |-> dt, next |-> n] :
        dt \in SeqsUpTo(PageOrgs, MaxPageLen), n \in 0..MaxPages}
    \cup {[status |-> s, data |-> <<>>, next |-> NoNext] : s \in GetStatus \ {200}}

GroupIdle ==
    /\ pages = <<>>
    /\ url = 0
    /\ all_orgs = <<>>
    /\ page = 0
    /\ g_requests = <<>>
    /\ g_pc = "idle"
    /\ g_result = <<>>

\* Lines 143-147: the first request goes to the group's url, with page = 1.
GroupInit ==
    /\ pages \in [1..MaxPages -> PageResponses]
    /\ url = 1
    /\ all_orgs = <<>>
    /\ page = 1
    /\ g_requests = <<>>
    /\ g_pc = "loop"
    /\ g_result = <<>>

\* Lines 199-200: the loop was left by break.
GroupReturn(orgs) ==
    /\ g_pc' = "done"
    /\ g_result' = orgs
    /\ UNCHANGED <<url, page>>

\* GroupError returning what the earlier pages gave instead of [].
GroupErrorKeepsPages ==
    /\ g_pc' = "done"
    /\ g_result' = all_orgs
    /\ UNCHANGED <<url, page, all_orgs>>

\* Lines 189-197: 404, 401, 403 and every other status return [].
GroupError ==
    /\ g_pc' = "done"
    /\ g_result' = <<>>
    /\ UNCHANGED <<url, page, all_orgs>>

\* GroupPage looking for the next link before it keeps the page: the last page is lost.
GroupPageDropsLast(resp) ==
    IF resp.data = <<>> \/ resp.next = NoNext
    THEN /\ GroupReturn(all_orgs)
         /\ UNCHANGED all_orgs
    ELSE /\ all_orgs' = all_orgs \o resp.data
         /\ url' = resp.next
         /\ page' = page + 1
         /\ UNCHANGED <<g_pc, g_result>>

\* GroupPage asking for the same url again instead of following the next link.
GroupPageRefetches(resp) ==
    IF resp.data = <<>>
    THEN /\ GroupReturn(all_orgs)
         /\ UNCHANGED all_orgs
    ELSE /\ all_orgs' = all_orgs \o resp.data
         /\ IF resp.next = NoNext
            THEN GroupReturn(all_orgs \o resp.data)
            ELSE /\ url' = url
                 /\ page' = page + 1
                 /\ UNCHANGED <<g_pc, g_result>>

\* Lines 153-187: a 200 page.
GroupPage(resp) ==
    IF resp.data = <<>>
    THEN /\ GroupReturn(all_orgs)
         /\ UNCHANGED all_orgs
    ELSE /\ all_orgs' = all_orgs \o resp.data
         /\ IF resp.next = NoNext
            THEN GroupReturn(all_orgs \o resp.data)
            ELSE /\ url' = resp.next
                 /\ page' = page + 1
                 /\ UNCHANGED <<g_pc, g_result>>

\* One iteration of the while loop of lines 149-197.
GroupRequest ==
    /\ g_pc = "loop"
    /\ page <= MaxFetch
    /\ g_requests' = Append(g_requests, url)
    /\ LET resp == pages[url]
       IN IF Raised(resp.status)
          THEN /\ g_pc' = "raised"
               /\ UNCHANGED <<url, page, all_orgs, g_result>>
          ELSE IF resp.status = 200
               THEN GroupPage(resp)
               ELSE GroupError
    /\ UNCHANGED pages

(***************************************************************************)
(* validate_organization_access (snyk_api.py 248-276)                      *)
(***************************************************************************)
\* Line 253.
versions == <<"2024-10-15", "2023-05-29", "2023-06-18">>

AccessIdle ==
    /\ v_resp = <<>>
    /\ v_idx = 0
    /\ v_requests = <<>>
    /\ v_pc = "idle"
    /\ v_result = FALSE

AccessInit ==
    /\ v_resp \in [DOMAIN versions -> GetStatus]
    /\ v_idx = 1
    /\ v_requests = <<>>
    /\ v_pc = "loop"
    /\ v_result = FALSE

\* AccessOutcome without the version fallback: a 404 is final.
AccessOutcomeNoFallback(status) ==
    IF Raised(status) THEN "raise"
    ELSE IF status = 200 THEN "true"
    ELSE IF status \in {404, 403, 401} THEN "false"
    ELSE "next"

\* AccessOutcome treating a denial like a 404: the next version is tried.
AccessOutcomeTriesOn(status) ==
    IF Raised(status) THEN "raise"
    ELSE IF status = 200 THEN "true"
    ELSE "next"

\* Lines 262-273: what one response does to the loop.
AccessOutcome(status) ==
    IF Raised(status) THEN "raise"
    ELSE IF status = 200 THEN "true"
    ELSE IF status = 404 THEN "next"
    ELSE IF status \in {403, 401} THEN "false"
    ELSE "next"

\* One iteration of the for loop of lines 255-273, and lines 275-276 after the last.
AccessRequest ==
    /\ v_pc = "loop"
    /\ v_idx \in DOMAIN versions
    /\ v_requests' = Append(v_requests, versions[v_idx])
    /\ LET o == AccessOutcome(v_resp[v_idx])
       IN CASE o = "raise" -> /\ v_pc' = "raised"
                              /\ UNCHANGED <<v_idx, v_result>>
            [] o = "true"  -> /\ v_pc' = "done"
                              /\ v_result' = TRUE
                              /\ UNCHANGED v_idx
            [] o = "false" -> /\ v_pc' = "done"
                              /\ v_result' = FALSE
                              /\ UNCHANGED v_idx
            [] OTHER       -> IF v_idx = Len(versions)
                              THEN /\ v_pc' = "done"
                                   /\ v_result' = FALSE
                                   /\ UNCHANGED v_idx
                              ELSE /\ v_idx' = v_idx + 1
                                   /\ UNCHANGED <<v_pc, v_result>>
    /\ UNCHANGED v_resp

RECURSIVE AccessFrom(_, _)
\* The whole call as a function of the server's answers: "true", "false" or "raise".
AccessFrom(resp, k) ==
    IF k > Len(versions) THEN "false"
    ELSE LET o == AccessOutcome(resp[k])
         IN IF o = "next" THEN AccessFrom(resp, k + 1) ELSE o

validate_organization_access(resp) == AccessFrom(resp, 1)

\* What the call can return or do, over every way the server can answer its requests.
AccessAnswers == {validate_organization_access(resp) : resp \in [DOMAIN versions -> GetStatus]}

(***************************************************************************)
(* The remote service, as far as broker integrations go.                   *)
(***************************************************************************)
\* A BrokerIntegration (lines 39-44) together with the connection it is bound to.
Integration(id, conn, org, type) ==
    [id |-> id, conn |-> conn, org_id |-> org, integration_type |-> type]

\* GET .../connections/{connection_id}/integrations: the bindings of one connection.
OnConnection(ints, conn) == SelectSeq(ints, LAMBDA r : r.conn = conn)

\* DELETE .../connections/{c}/orgs/{o}/integrations/{id}: gone iff the answer is 204.
ServerDelete(ints, conn, org, id, status) ==
    IF status = 204
    THEN SelectSeq(ints, LAMBDA r : ~(r.id = id /\ r.conn = conn /\ r.org_id = org))
    ELSE ints

\* POST .../connections/{c}/orgs/{o}/integration: a new binding iff the answer is 201.
ServerCreate(ints, id, conn, org, type, status) ==
    IF status = 201 THEN Append(ints, Integration(id, conn, org, type)) ELSE ints

(***************************************************************************)
(* The gateway calls the workflow makes (snyk_api.py 857-956)              *)
(***************************************************************************)
\* Lines 876-893: the parsed listing on 200, [] on any other status.
get_broker_integrations_for_connection(ints, conn, status) ==
    IF status = 200 THEN OnConnection(ints, conn) ELSE <<>>

\* Lines 916-921.
delete_broker_integration(status) == status = 204

\* create_broker_integration taking every success status for a creation.
create_broker_integration_any_2xx(status) == status \in {200, 201, 204}

\* Lines 951-956.
create_broker_integration(status) == status = 201

\* What the caller of a boolean gateway call gets: "true", "false" or "raise".
Answer(status, ok) == IF Raised(status) THEN "raise" ELSE IF ok THEN "true" ELSE "false"

(***************************************************************************)
(* configure_broker_for_organizations_bulk (snyk_api.py 675-789)           *)
(***************************************************************************)
EmptyResult == [success |-> <<>>, failed |-> <<>>, skipped |-> <<>>]

\* An entry of the request log of a run; ok is "true", "false" or "raise".
Call(op, conn, org, id, type, ok) ==
    [op |-> op, conn |-> conn, org_id |-> org, id |-> id, type |-> type, ok |-> ok]

\* Lines 700-707: the connection to replicate, or None when there is none.
ResolveConnection(arg, conns) ==
    IF arg # None THEN arg
    ELSE IF conns = <<>> THEN None
    ELSE conns[1]

\* FindSourceIntegration without the test of line 713: the first integration is taken.
FindSourceIntegrationAny(listing, src) ==
    IF listing = <<>> THEN <<>> ELSE <<listing[1]>>

\* Lines 711-715: the first integration of the listing bound to the source organization.
FindSourceIntegration(listing, src) ==
    LET hits == SelectSeq(listing, LAMBDA r : r.org_id = src)
    IN IF hits = <<>> THEN <<>> ELSE <<hits[1]>>

\* TargetOrgs without the filter: the source organization stays in the list.
TargetOrgsKeepsSource(orgs, src) == orgs

\* Line 724 (and line 670).
TargetOrgs(orgs, src) == SelectSeq(orgs, LAMBDA o : o # src)

\* A deletion pass that takes no integration at all.
DeletionCandidateNone(integration, src) == FALSE

\* Line 728: the deletion pass skips only the source organization's bindings.
DeletionCandidate(integration, src) == integration.org_id # src

\* Lines 762-767.
SuccessRecord(org, conn) ==
    [org_id |-> org, broker_connection_id |-> conn, status |-> "configured"]

\* A failed record built without its reason.
FailedRecordNoReason(org, reason) == [org_id |-> org]

\* Lines 746-750, 770-774 and 779-783.
FailedRecord(org, reason) == [org_id |-> org, reason |-> reason]

\* The remote state before the first run: at most one binding per organization on c1.
InitialIntegrations ==
    LET shapes == [org_id : Orgs, integration_type : Types]
        lists == {s \in SeqsUpTo(shapes, MaxInts) :
                     \A j, k \in DOMAIN s : j # k => s[j].org_id # s[k].org_id}
    IN {[k \in DOMAIN s |-> Integration(k, "c1", s[k].org_id, s[k].integration_type)] :
           s \in lists}

NoFirstRun == [integrations |-> <<>>, result |-> EmptyResult, passed |-> FALSE]

BulkLocalsIdle ==
    /\ broker_connection_id = None
    /\ b_all_orgs = <<>>
    /\ source_integrations = <<>>
    /\ source_integration = <<>>
    /\ target_orgs = <<>>
    /\ d_idx = 0
    /\ c_idx = 0
    /\ success_list = <<>>
    /\ failed_list = <<>>
    /\ skipped_list = <<>>
    /\ calls = <<>>
    /\ pc = "idle"
    /\ result = EmptyResult

BulkIdle ==
    /\ tenant_id = None
    /\ source_org_id = None
    /\ conn_arg = None
    /\ group_orgs = <<>>
    /\ connections = <<>>
    /\ integrations = <<>>
    /\ next_id = 0
    /\ BulkLocalsIdle
    /\ run = 0
    /\ first_final = NoFirstRun

BulkInit ==
    /\ tenant_id \in {None, "tenant"}
    /\ source_org_id \in SourceOrgs
    /\ conn_arg \in Conns \cup {None}
    /\ group_orgs \in {s \in SeqsUpTo(Orgs, Cardinality(Orgs)) : NoDup(s)}
    /\ connections \in {s \in SeqsUpTo(Conns, Cardinality(Conns)) : NoDup(s)}
    /\ integrations \in InitialIntegrations
    /\ next_id = Len(integrations) + 1
    /\ BulkLocalsIdle
    /\ run = 1
    /\ first_final = NoFirstRun

\* Lines 695, 704 and 719: return with three empty buckets.
ReturnEmpty ==
    /\ pc' = "done"
    /\ result' = EmptyResult
    /\ UNCHANGED <<source_integrations, source_integration, target_orgs, d_idx>>

\* Lines 868 and 102: the call raises out of the workflow.
RaiseOut ==
    /\ pc' = "raised"
    /\ UNCHANGED <<source_integrations, source_integration, target_orgs, d_idx, result>>

\* Lines 709-725 once the connection is known and the listing was answered.
ConfigureSource(conn, status) ==
    LET listing == get_broker_integrations_for_connection(integrations, conn, status)
        source == FindSourceIntegration(listing, source_org_id)
    IN IF source = <<>>
       THEN ReturnEmpty
       ELSE /\ source_integrations' = listing
            /\ source_integration' = source
            /\ target_orgs' = TargetOrgs(group_orgs, source_org_id)
            /\ d_idx' = 1
            /\ pc' = "delete"
            /\ UNCHANGED result

\* Lines 691-725: the call up to the start of the deletion pass.
Configure ==
    /\ pc = "idle"
    /\ b_all_orgs' = group_orgs
    /\ LET conn == ResolveConnection(conn_arg, connections)
       IN IF group_orgs = <<>>
          THEN /\ ReturnEmpty
               /\ UNCHANGED broker_connection_id
          ELSE IF conn = None
          THEN /\ ReturnEmpty
               /\ UNCHANGED broker_connection_id
          ELSE /\ broker_connection_id' = conn
               /\ IF tenant_id = None
                  THEN RaiseOut
                  ELSE \E status \in GetStatus :
                          IF Raised(status) THEN RaiseOut ELSE ConfigureSource(conn, status)
    /\ UNCHANGED <<c_idx, success_list, failed_list, skipped_list, calls, run, first_final>>
    /\ UNCHANGED <<cfg_vars, remote_vars>>

\* Lines 785-789.
ReturnResult(success, failed) ==
    /\ pc' = "done"
    /\ result' = [success |-> success, failed |-> failed, skipped |-> skipped_list]

\* The end of one iteration of the deletion loop; lines 735-739 after the last one.
DeletionAdvance ==
    IF d_idx < Len(source_integrations)
    THEN /\ d_idx' = d_idx + 1
         /\ UNCHANGED <<pc, c_idx, result>>
    ELSE /\ UNCHANGED d_idx
         /\ IF target_orgs = <<>>
            THEN /\ ReturnResult(<<>>, <<>>)
                 /\ UNCHANGED c_idx
            ELSE /\ pc' = "create"
                 /\ c_idx' = 1
                 /\ UNCHANGED result

\* AfterDelete giving up on the first delete that returns False.
AfterDeleteAborts(status) ==
    IF Raised(status)
    THEN /\ pc' = "raised"
         /\ UNCHANGED <<d_idx, c_idx, result>>
    ELSE IF delete_broker_integration(status)
    THEN DeletionAdvance
    ELSE /\ ReturnResult(<<>>, <<>>)
         /\ UNCHANGED <<d_idx, c_idx>>

\* Lines 730-732: a delete that returns False is logged and the loop goes on; one that
\* raises leaves the workflow.
AfterDelete(status) ==
    IF Raised(status)
    THEN /\ pc' = "raised"
         /\ UNCHANGED <<d_idx, c_idx, result>>
    ELSE DeletionAdvance

\* One iteration of the deletion loop of lines 727-732.
DeleteStep ==
    /\ pc = "delete"
    /\ LET integration == source_integrations[d_idx]
       IN IF DeletionCandidate(integration, source_org_id)
          THEN \E status \in DeleteStatus :
                  /\ calls' = Append(calls,
                        Call("delete", broker_connection_id, integration.org_id,
                             integration.id, integration.integration_type,
                             Answer(status, delete_broker_integration(status))))
                  /\ integrations' = ServerDelete(integrations, broker_connection_id,
                                        integration.org_id, integration.id, status)
                  /\ AfterDelete(status)
          ELSE /\ DeletionAdvance
               /\ UNCHANGED <<calls, integrations>>
    /\ UNCHANGED <<broker_connection_id, b_all_orgs, source_integrations, source_integration,
                   target_orgs, success_list, failed_list, skipped_list, run, first_final>>
    /\ UNCHANGED <<cfg_vars, group_orgs, connections, next_id>>

\* The end of one iteration of the creation loop; lines 785-789 after the last one.
CreationAdvance(success, failed) ==
    /\ success_list' = success
    /\ failed_list' = failed
    /\ IF c_idx < Len(target_orgs)
       THEN /\ c_idx' = c_idx + 1
            /\ UNCHANGED <<pc, result>>
       ELSE /\ ReturnResult(success, failed)
            /\ UNCHANGED c_idx

\* Lines 753-775 as they would read if the type were taken from the first entry of the
\* listing instead of the source organization's integration.
CreateForFirstListed(org, status) ==
    LET type == source_integrations[1].integration_type
    IN /\ calls' = calls \o
            << Call("validate", None, org, 0, None, "true"),
               Call("create", broker_connection_id, org, 0, type,
                    Answer(status, create_broker_integration(status))) >>
       /\ integrations' = ServerCreate(integrations, next_id, broker_connection_id,
                                       org, type, status)
       /\ next_id' = IF status = 201 THEN next_id + 1 ELSE next_id
       /\ IF Raised(status)
          THEN CreationAdvance(success_list, Append(failed_list, FailedRecord(org, "exception")))
          ELSE IF create_broker_integration(status)
          THEN CreationAdvance(Append(success_list, SuccessRecord(org, broker_connection_id)),
                               failed_list)
          ELSE CreationAdvance(success_list,
                  Append(failed_list, FailedRecord(org, "Failed to create broker integration")))

\* Lines 753-775: access was granted, the integration is created.
CreateFor(org, status) ==
    LET type == source_integration[1].integration_type
    IN /\ calls' = calls \o
            << Call("validate", None, org, 0, None, "true"),
               Call("create", broker_connection_id, org, 0, type,
                    Answer(status, create_broker_integration(status))) >>
       /\ integrations' = ServerCreate(integrations, next_id, broker_connection_id,
                                       org, type, status)
       /\ next_id' = IF status = 201 THEN next_id + 1 ELSE next_id
       /\ IF Raised(status)
          THEN CreationAdvance(success_list, Append(failed_list, FailedRecord(org, "exception")))
          ELSE IF create_broker_integration(status)
          THEN CreationAdvance(Append(success_list, SuccessRecord(org, broker_connection_id)),
                               failed_list)
          ELSE CreationAdvance(success_list,
                  Append(failed_list, FailedRecord(org, "Failed to create broker integration")))

\* RefuseFor without the handler of lines 777-783: an exception of the validation leaves
\* the workflow.
RefuseForRaisesOut(org, access) ==
    /\ calls' = Append(calls, Call("validate", None, org, 0, None, access))
    /\ IF access = "raise"
       THEN /\ pc' = "raised"
            /\ UNCHANGED <<success_list, failed_list, c_idx, result>>
       ELSE CreationAdvance(success_list,
               Append(failed_list, FailedRecord(org, "Access denied")))
    /\ UNCHANGED <<integrations, next_id>>

\* Lines 744-751 and 777-783: access was refused, or validating it raised.
RefuseFor(org, access) ==
    /\ calls' = Append(calls, Call("validate", None, org, 0, None, access))
    /\ CreationAdvance(success_list,
          Append(failed_list,
                 FailedRecord(org, IF access = "raise" THEN "exception" ELSE "Access denied")))
    /\ UNCHANGED <<integrations, next_id>>

\* One iteration of the creation loop of lines 739-783.
CreateStep ==
    /\ pc = "create"
    /\ LET org == target_orgs[c_idx]
       IN \E access \in AccessAnswers :
             IF access = "true"
             THEN \E status \in CreateStatus : CreateFor(org, status)
             ELSE RefuseFor(org, access)
    /\ UNCHANGED <<broker_connection_id, b_all_orgs, source_integrations, source_integration,
                   target_orgs, d_idx, skipped_list, run, first_final>>
    /\ UNCHANGED <<cfg_vars, group_orgs, connections>>

\* A second call with the same arguments once the first one has returned.
RunAgain ==
    /\ pc = "done"
    /\ run = 1
    /\ run' = 2
    /\ first_final' = [integrations |-> integrations, result |-> result,
                        passed |-> source_integration # <<>>]
    /\ broker_connection_id' = None
    /\ b_all_orgs' = <<>>
    /\ source_integrations' = <<>>
    /\ source_integration' = <<>>
    /\ target_orgs' = <<>>
    /\ d_idx' = 0
    /\ c_idx' = 0
    /\ success_list' = <<>>
    /\ failed_list' = <<>>
    /\ skipped_list' = <<>>
    /\ calls' = <<>>
    /\ pc' = "idle"
    /\ result' = EmptyResult
    /\ UNCHANGED <<cfg_vars, remote_vars>>

(***************************************************************************)
(* main (broker_mass_configure.py 16-178)                                  *)
(***************************************************************************)
\* The command lines: --remove-connection, --dry-run, --broker-connection-id.
CliArgs ==
    [remove_connection : {None, "c1"}, dry_run : BOOLEAN,
     broker_connection_id : Conns \cup {None}]

NoArgs == [remove_connection |-> None, dry_run |-> FALSE, broker_connection_id |-> None]

NotRunning == 0 - 1

\* The client is used as a library: main does not run.
CliIdle ==
    /\ args = NoArgs
    /\ cli_pc = "idle"
    /\ selected_connection = None
    /\ cli_results = <<>>
    /\ cli_error = None
    /\ exit_code = NotRunning

\* Lines 29-52: the command line is parsed and the client built from it; --source-org-id
\* is optional, --tenant-id may be the empty string.
CliInit ==
    /\ args \in CliArgs
    /\ cli_pc = "start"
    /\ selected_connection = None
    /\ cli_results = <<>>
    /\ cli_error = None
    /\ exit_code = NotRunning
    /\ tenant_id \in {None, "tenant"}
    /\ source_org_id \in SourceOrgs \cup {None}
    /\ conn_arg = None
    /\ group_orgs \in {s \in SeqsUpTo(Orgs, Cardinality(Orgs)) : NoDup(s)}
    /\ connections \in {s \in SeqsUpTo(Conns, Cardinality(Conns)) : NoDup(s)}
    /\ integrations \in InitialIntegrations
    /\ next_id = Len(integrations) + 1
    /\ BulkLocalsIdle
    /\ run = 1
    /\ first_final = NoFirstRun

\* Lines 609-650: the connections of the source organization, [] unless the answer is 200.
get_broker_connections(conns, status) == IF status = 200 THEN conns ELSE <<>>

\* SelectConnection taking the last connection of the list when none is given.
SelectConnectionLast(arg, conns) ==
    IF arg # None
    THEN IF arg \in Range(conns) THEN arg ELSE None
    ELSE conns[Len(conns)]

\* Lines 121-135: the explicit connection when the source has it, else the first one.
SelectConnection(arg, conns) ==
    IF arg # None
    THEN IF arg \in Range(conns) THEN arg ELSE None
    ELSE conns[1]

\* The process ends: by return (0), through the handler of lines 173-178 (1), or in
\* parser.error (2).
CliExit(code, error) ==
    /\ cli_pc' = "exit"
    /\ exit_code' = code
    /\ cli_error' = error

\* Lines 42-43: neither --remove-connection nor --source-org-id.
CliReject ==
    /\ cli_pc = "start"
    /\ args.remove_connection = None
    /\ source_org_id = None
    /\ CliExit(2, None)
    /\ UNCHANGED <<args, selected_connection, cli_results>>
    /\ UNCHANGED <<g_vars, v_vars, cfg_vars, remote_vars, b_vars, gw_vars, n_vars>>

\* Lines 59-67 and 173-178: SnykAPI has no attribute remove_connection_from_all_orgs, so
\* the call of line 63 raises AttributeError, which the handler turns into exit status 1.
CliRemove ==
    /\ cli_pc = "start"
    /\ args.remove_connection # None
    /\ CliExit(1, "AttributeError")
    /\ UNCHANGED <<args, selected_connection, cli_results>>
    /\ UNCHANGED <<g_vars, v_vars, cfg_vars, remote_vars, b_vars, gw_vars, n_vars>>

\* CliSelect without the test of line 140: a dry run calls the bulk workflow too.
CliSelectIgnoresDryRun ==
    /\ cli_pc = "start"
    /\ args.remove_connection = None
    /\ source_org_id # None
    /\ IF TargetOrgs(group_orgs, source_org_id) = <<>>
       THEN /\ CliExit(0, None)
            /\ UNCHANGED <<selected_connection, conn_arg>>
       ELSE \E status \in GetStatus :
               LET broker_connections == get_broker_connections(connections, status)
                   selected == SelectConnection(args.broker_connection_id,
                                                broker_connections)
               IN IF Raised(status)
                  THEN /\ CliExit(1, "exception")
                       /\ UNCHANGED <<selected_connection, conn_arg>>
                  ELSE IF broker_connections = <<>>
                  THEN /\ CliExit(0, None)
                       /\ UNCHANGED <<selected_connection, conn_arg>>
                  ELSE /\ selected_connection' = selected
                       /\ IF selected = None
                          THEN /\ CliExit(0, None)
                               /\ UNCHANGED conn_arg
                          ELSE /\ conn_arg' = selected
                               /\ cli_pc' = "bulk"
                               /\ UNCHANGED <<exit_code, cli_error>>
    /\ UNCHANGED <<args, cli_results>>
    /\ UNCHANGED <<g_vars, v_vars, tenant_id, source_org_id, remote_vars, b_vars, gw_vars, n_vars>>

\* Lines 90-148: the steps of the configuration mode up to the call of the bulk workflow.
CliSelect ==
    /\ cli_pc = "start"
    /\ args.remove_connection = None
    /\ source_org_id # None
    /\ IF TargetOrgs(group_orgs, source_org_id) = <<>>
       THEN /\ CliExit(0, None)
            /\ UNCHANGED <<selected_connection, conn_arg>>
       ELSE \E status \in GetStatus :
               LET broker_connections == get_broker_connections(connections, status)
                   selected == SelectConnection(args.broker_connection_id,
                                                broker_connections)
               IN IF Raised(status)
                  THEN /\ CliExit(1, "exception")
                       /\ UNCHANGED <<selected_connection, conn_arg>>
                  ELSE IF broker_connections = <<>>
                  THEN /\ CliExit(0, None)
                       /\ UNCHANGED <<selected_connection, conn_arg>>
                  ELSE /\ selected_connection' = selected
                       /\ IF selected = None \/ args.dry_run
                          THEN /\ CliExit(0, None)
                               /\ UNCHANGED conn_arg
                          ELSE /\ conn_arg' = selected
                               /\ cli_pc' = "bulk"
                               /\ UNCHANGED <<exit_code, cli_error>>
    /\ UNCHANGED <<args, cli_results>>
    /\ UNCHANGED <<g_vars, v_vars, tenant_id, source_org_id, remote_vars, b_vars, gw_vars, n_vars>>

\* CliReturn as it would read if a run with failed organizations ended with status 1.
CliReturnFailsOnFailed ==
    /\ cli_pc = "bulk"
    /\ pc \in {"done", "raised"}
    /\ IF pc = "done"
       THEN /\ cli_results' = <<result>>
            /\ CliExit(IF result.failed = <<>> THEN 0 ELSE 1, None)
       ELSE /\ CliExit(1, "exception")
            /\ UNCHANGED cli_results
    /\ UNCHANGED <<args, selected_connection>>
    /\ UNCHANGED <<g_vars, v_vars, cfg_vars, remote_vars, b_vars, gw_vars, n_vars>>

\* Lines 148-178: the bulk workflow returned its result, or raised into the handler.
CliReturn ==
    /\ cli_pc = "bulk"
    /\ pc \in {"done", "raised"}
    /\ IF pc = "done"
       THEN /\ cli_results' = <<result>>
            /\ CliExit(0, None)
       ELSE /\ CliExit(1, "exception")
            /\ UNCHANGED cli_results
    /\ UNCHANGED <<args, selected_connection>>
    /\ UNCHANGED <<g_vars, v_vars, cfg_vars, remote_vars, b_vars, gw_vars, n_vars>>

(***************************************************************************)
(* The operations of the client that issue requests, one call at a time    *)
(* (snyk_api.py 110-123, 248-292, 347-464, 568-650, 857-956)               *)
(***************************************************************************)
\* The operations that return a list, [] when they have nothing.
ListOps ==
    {"get_organizations", "get_projects_for_org", "get_integrations_for_org",
     "get_broker_connections", "get_broker_integrations_for_connection"}

\* The operations that return True or False.
BooleanOps ==
    {"validate_organization_access", "delete_integration", "delete_broker_integration",
     "create_broker_integration"}

\* The operations that return a record or None.
OptionalOps ==
    {"get_organization_details", "get_project_details", "create_integration",
     "update_integration", "get_organization_settings", "update_organization_settings"}

GatewayOps == ListOps \cup BooleanOps \cup OptionalOps

\* Lines 867, 907 and 936: the operations of the tenant-scoped API test self.tenant_id.
TenantOps ==
    {"get_broker_integrations_for_connection", "delete_broker_integration",
     "create_broker_integration"}

\* Status codes a request can be answered with; 0 is a request that raised.
GatewayStatus == {0, 200, 201, 204, 400, 401, 403, 404, 409, 500}

\* What an operation returns, written "[]" or "data" for a list, "true" or "false" for
\* a boolean, "None" or "data" for an optional record.
Listed(list) == IF list = <<>> THEN "[]" ELSE "data"
Truth(b) == IF b THEN "true" ELSE "false"
Record(present) == IF present THEN "data" ELSE "None"

\* The body of each operation after its request, on a server that has data to return.
GatewayResult(op, status) ==
    CASE op = "get_organizations" -> Listed(IF status = 200 THEN <<"A">> ELSE <<>>)
      [] op = "get_projects_for_org" -> Listed(IF status = 200 THEN <<"p">> ELSE <<>>)
      [] op = "get_integrations_for_org" -> Listed(IF status = 200 THEN <<"i">> ELSE <<>>)
      [] op = "get_broker_connections" -> Listed(get_broker_connections(<<"c1">>, status))
      [] op = "get_broker_integrations_for_connection" ->
            Listed(get_broker_integrations_for_connection(
                      <<Integration(1, "c1", "A", "t1")>>, "c1", status))
      [] op = "validate_organization_access" ->
            validate_organization_access([k \in DOMAIN versions |-> status])
      [] op = "delete_integration" -> Truth(status = 204)
      [] op = "delete_broker_integration" -> Truth(delete_broker_integration(status))
      [] op = "create_broker_integration" -> Truth(create_broker_integration(status))
      [] op = "get_organization_details" -> Record(status = 200)
      [] op = "get_project_details" -> Record(status = 200)
      [] op = "create_integration" -> Record(status = 201)
      [] op = "update_integration" -> Record(status = 200)
      [] op = "get_organization_settings" -> Record(status = 200)
      [] op = "update_organization_settings" -> Record(status = 200)

\* The requests of one call: one, but for the version fallback of lines 255-273.
RequestsOf(op, status) ==
    IF op = "validate_organization_access" /\ AccessOutcome(status) = "next"
    THEN Len(versions)
    ELSE 1

GatewayIdle ==
    /\ gw_op = None
    /\ gw_status = 0
    /\ gw_requests = 0
    /\ gw_out = None
    /\ gw_pc = "idle"

\* A client with or without a tenant id, about to call one operation.
GatewayInit ==
    /\ gw_op \in GatewayOps
    /\ gw_status \in GatewayStatus
    /\ gw_requests = 0
    /\ gw_out = None
    /\ gw_pc = "call"
    /\ tenant_id \in {None, "tenant"}

\* The tenant test as it would read after the request instead of before it.
TenantGuardLate(op, status) ==
    IF op \in TenantOps /\ tenant_id = None
    THEN /\ gw_requests' = RequestsOf(op, status)
         /\ gw_out' = "raise"
    ELSE /\ gw_requests' = RequestsOf(op, status)
         /\ gw_out' = IF Raised(status) THEN "raise" ELSE GatewayResult(op, status)

\* Lines 867-868, 907-908, 936-937: without a tenant id the operation raises ValueError
\* before it builds its request; otherwise it sends it and maps the answer.
TenantGuard(op, status) ==
    IF op \in TenantOps /\ tenant_id = None
    THEN /\ gw_requests' = 0
         /\ gw_out' = "raise"
    ELSE /\ gw_requests' = RequestsOf(op, status)
         /\ gw_out' = IF Raised(status) THEN "raise" ELSE GatewayResult(op, status)

\* One call of one operation.
GatewayCall ==
    /\ gw_pc = "call"
    /\ gw_pc' = "done"
    /\ TenantGuard(gw_op, gw_status)
    /\ UNCHANGED <<gw_op, gw_status>>
    /\ UNCHANGED <<g_vars, v_vars, cfg_vars, remote_vars, b_vars, cli_vars, n_vars>>

(***************************************************************************)
(* The loops that handle one organization at a time:                       *)
(* configure_broker_for_organizations (snyk_api.py 791-855) with           *)
(* _configure_broker_for_org (958-1021), and mass_configure_broker         *)
(* (509-566) with configure_broker_integration (479-507)                   *)
(***************************************************************************)
EachIdle ==
    /\ n_fn = None
    /\ n_orgs = <<>>
    /\ n_idx = 0
    /\ n_results = EmptyResult
    /\ n_log = <<>>
    /\ n_pc = "idle"

\* A call with an explicit list of one or two target organizations, for the connection
\* the initial integrations sit on.
EachInit ==
    /\ n_fn \in {"configure_broker_for_organizations", "mass_configure_broker"}
    /\ n_orgs \in {<<"B">>, <<"B", "C">>}
    /\ n_idx = 1
    /\ n_results = EmptyResult
    /\ n_log = <<>>
    /\ n_pc = "loop"
    /\ tenant_id \in {None, "tenant"}
    /\ source_org_id \in SourceOrgs
    /\ conn_arg = "c1"
    /\ group_orgs = <<>>
    /\ connections = <<>>
    /\ integrations \in InitialIntegrations
    /\ next_id = Len(integrations) + 1
    /\ BulkLocalsIdle
    /\ run = 0
    /\ first_final = NoFirstRun

\* Line 1008: integration_id is neither a parameter nor a local nor a global of
\* _configure_broker_for_org, so evaluating the arguments of the call raises NameError.
integration_id_defined == FALSE

\* What one call of _configure_broker_for_org did and returned.
Outcome(ok, ints, nid, bound, deleted) ==
    [ok |-> ok, ints |-> ints, next_id |-> nid, source_bound |-> bound,
     deletes_ok |-> deleted]

RECURSIVE DeleteAll(_, _, _, _)
\* Lines 995-1001 when every delete succeeds.
DeleteAll(ints, conn, mine, status) ==
    IF mine = <<>> THEN ints
    ELSE DeleteAll(ServerDelete(ints, conn, mine[1].org_id, mine[1].id, status),
                   conn, Tail(mine), status)

\* Lines 976-1021.  Every exception is caught at line 1019 and gives False.
configure_broker_for_org(ints, nid, org, conn, list_status, delete_status, create_status) ==
    IF tenant_id = None \/ Raised(list_status)
    THEN Outcome(FALSE, ints, nid, FALSE, FALSE)
    ELSE LET listing == get_broker_integrations_for_connection(ints, conn, list_status)
             source == FindSourceIntegration(listing, source_org_id)
             mine == SelectSeq(listing, LAMBDA r : r.org_id = org)
         IN IF source = <<>>
            THEN Outcome(FALSE, ints, nid, FALSE, FALSE)
            ELSE IF mine # <<>> /\ ~delete_broker_integration(delete_status)
            THEN Outcome(FALSE, ints, nid, TRUE, FALSE)
            ELSE LET cleaned == DeleteAll(ints, conn, mine, 204)
                 IN IF ~integration_id_defined
                    THEN Outcome(FALSE, cleaned, nid, TRUE, TRUE)
                    ELSE Outcome(create_broker_integration(create_status),
                                 ServerCreate(cleaned, nid, conn, org,
                                              source[1].integration_type, create_status),
                                 IF create_status = 201 THEN nid + 1 ELSE nid,
                                 TRUE, TRUE)

\* The answers that matter to one call of _configure_broker_for_org: a request that is
\* not sent has no answer (NotRunning).
DeleteChoices(ints, org, conn, list_status) ==
    LET listing == get_broker_integrations_for_connection(ints, conn, list_status)
    IN IF /\ tenant_id # None
          /\ FindSourceIntegration(listing, source_org_id) # <<>>
          /\ SelectSeq(listing, LAMBDA r : r.org_id = org) # <<>>
       THEN DeleteStatus
       ELSE {NotRunning}

CreateChoices(ints, org, conn, list_status, delete_status) ==
    IF configure_broker_for_org(ints, 0, org, conn, list_status, delete_status, 0).deletes_ok
    THEN CreateStatus
    ELSE {NotRunning}

\* Lines 488-507: update the first broker integration of the organization, or create
\* one; "data", "None" or "raise".
configure_broker_integration(list_status, has_broker, write_status) ==
    IF Raised(list_status) \/ Raised(write_status) THEN "raise"
    ELSE IF list_status = 200 /\ has_broker
    THEN Record(write_status = 200)
    ELSE Record(write_status = 201)

\* Statuses of the GET of get_organization_name (lines 294-299): it raises, or gives a
\* name (the organization's on 200, its id otherwise).
LookupStatus == {0, 200, 404}

\* One iteration as the log keeps it.
Entry(org, access, returned, bound, deleted, create_status) ==
    [org_id |-> org, access |-> access, returned |-> returned, source_bound |-> bound,
     deletes_ok |-> deleted, create_status |-> create_status, name_raised |-> FALSE,
     handler_raised |-> FALSE]

\* The end of one iteration; lines 854-855 and 565-566 after the last one.
EachAdvance ==
    IF n_idx < Len(n_orgs)
    THEN /\ n_idx' = n_idx + 1
         /\ UNCHANGED n_pc
    ELSE /\ n_pc' = "done"
         /\ UNCHANGED n_idx

EachAppend(bucket, record, entry) ==
    /\ n_results' = [n_results EXCEPT ![bucket] = Append(@, record)]
    /\ n_log' = Append(n_log, entry)
    /\ EachAdvance

\* Lines 846-852 and 557-563: the handler builds its failed record with
\* get_organization_name, a request of its own; when that raises, nothing catches it.
EachHandler(org, entry) ==
    \E status \in LookupStatus :
       IF Raised(status)
       THEN /\ n_pc' = "raised"
            /\ n_log' = Append(n_log, [entry EXCEPT !.handler_raised = TRUE])
            /\ UNCHANGED <<n_results, n_idx>>
       ELSE EachAppend("failed", FailedRecord(org, "Exception"), entry)

\* A record whose org_name is looked up while it is built, inside the try block.
EachRecorded(org, bucket, record, entry) ==
    \E status \in LookupStatus :
       IF Raised(status)
       THEN EachHandler(org, [entry EXCEPT !.name_raised = TRUE])
       ELSE EachAppend(bucket, record, entry)

\* EachRefused putting the organization in failed, as the bulk workflow does.
EachRefusedAsFailed(org, entry) ==
    IF n_fn = "mass_configure_broker"
    THEN EachAppend("failed", FailedRecord(org, "Organization not accessible"), entry)
    ELSE EachRecorded(org, "failed", FailedRecord(org, "Organization not accessible"),
                      entry)

\* Lines 819-825 and 533-538: the access validation returned False.
EachRefused(org, entry) ==
    IF n_fn = "mass_configure_broker"
    THEN EachAppend("skipped", FailedRecord(org, "Organization not accessible"), entry)
    ELSE EachRecorded(org, "skipped", FailedRecord(org, "Organization not accessible"),
                      entry)

\* Lines 827-844: an iteration of configure_broker_for_organizations with access.
ConfigureEach(org) ==
    \E list_status \in GetStatus :
    \E delete_status \in DeleteChoices(integrations, org, conn_arg, list_status) :
    \E create_status \in CreateChoices(integrations, org, conn_arg, list_status,
                                      delete_status) :
       LET r == configure_broker_for_org(integrations, next_id, org, conn_arg,
                                         list_status, delete_status, create_status)
           entry == Entry(org, "true", Truth(r.ok), r.source_bound, r.deletes_ok,
                          create_status)
       IN /\ integrations' = r.ints
          /\ next_id' = r.next_id
          /\ IF r.ok
             THEN EachRecorded(org, "success", SuccessRecord(org, conn_arg), entry)
             ELSE EachRecorded(org, "failed",
                     FailedRecord(org, "Failed to configure broker integration"), entry)

\* Lines 540-555: an iteration of mass_configure_broker with access.
MassEach(org) ==
    \E list_status \in {0, 200, 500}, has_broker \in BOOLEAN, write_status \in CreateStatus :
       LET r == configure_broker_integration(list_status, has_broker, write_status)
           entry == Entry(org, "true", r, FALSE, FALSE, NotRunning)
       IN /\ UNCHANGED <<integrations, next_id>>
          /\ IF r = "raise" THEN EachHandler(org, entry)
             ELSE IF r = "data"
             THEN EachRecorded(org, "success", SuccessRecord(org, None), entry)
             ELSE EachRecorded(org, "failed",
                     FailedRecord(org, "Failed to configure broker integration"), entry)

\* One iteration of the loop of lines 814-852, or of lines 529-563.
EachStep ==
    /\ n_pc = "loop"
    /\ LET org == n_orgs[n_idx]
       IN \E access \in AccessAnswers :
             IF access = "raise"
             THEN /\ EachHandler(org, Entry(org, access, "none", FALSE, FALSE, NotRunning))
                  /\ UNCHANGED <<integrations, next_id>>
             ELSE IF access = "false"
             THEN /\ EachRefused(org, Entry(org, access, "none", FALSE, FALSE, NotRunning))
                  /\ UNCHANGED <<integrations, next_id>>
             ELSE IF n_fn = "mass_configure_broker"
             THEN MassEach(org)
             ELSE ConfigureEach(org)
    /\ UNCHANGED <<n_fn, n_orgs, cfg_vars, group_orgs, connections>>
    /\ UNCHANGED <<g_vars, v_vars, b_vars, cli_vars, gw_vars>>

(***************************************************************************)
(* The specifications                                                      *)
(***************************************************************************)
NextOrgs ==
    GroupRequest /\ UNCHANGED <<v_vars, cfg_vars, remote_vars, b_vars, cli_vars, gw_vars, n_vars>>

InitOrgs == GroupInit /\ AccessIdle /\ BulkIdle /\ CliIdle /\ GatewayIdle /\ EachIdle

SpecOrgs == InitOrgs /\ [][NextOrgs]_vars

NextAccess ==
    AccessRequest /\ UNCHANGED <<g_vars, cfg_vars, remote_vars, b_vars, cli_vars, gw_vars, n_vars>>

InitAccess == GroupIdle /\ AccessInit /\ BulkIdle /\ CliIdle /\ GatewayIdle /\ EachIdle

SpecAccess == InitAccess /\ [][NextAccess]_vars

Init == GroupIdle /\ AccessIdle /\ BulkInit /\ CliIdle /\ GatewayIdle /\ EachIdle

\* Two runs of a configured client that is given no connection id.
InitTwice ==
    /\ Init
    /\ tenant_id # None
    /\ conn_arg = None
    /\ connections = <<"c1", "c2">>
    /\ Len(integrations) < MaxInts

Next ==
    \/ Configure /\ UNCHANGED <<g_vars, v_vars, cli_vars, gw_vars, n_vars>>
    \/ DeleteStep /\ UNCHANGED <<g_vars, v_vars, cli_vars, gw_vars, n_vars>>
    \/ CreateStep /\ UNCHANGED <<g_vars, v_vars, cli_vars, gw_vars, n_vars>>

Spec == Init /\ [][Next]_vars

NextTwice ==
    \/ Next
    \/ RunAgain /\ UNCHANGED <<g_vars, v_vars, cli_vars, gw_vars, n_vars>>

SpecTwice == InitTwice /\ [][NextTwice]_vars

\* The two request loops, each run to its end: the client is sequential, so a loop that
\* can take its next iteration takes it.
\* Whether the listing loop ends depends on a page only through its status, its next
\* link and whether it holds records, so one record per page is enough here.
InitOrgsShort ==
    /\ InitOrgs
    /\ \A p \in DOMAIN pages : pages[p].data \in {<<>>, <<"A">>}

InitLoops == InitOrgsShort \/ InitAccess

NextLoops == NextOrgs \/ NextAccess

SpecLoops == InitLoops /\ [][NextLoops]_vars /\ WF_vars(NextLoops)

\* One call of configure_broker_for_organizations or of mass_configure_broker.
InitEach == GroupIdle /\ AccessIdle /\ EachInit /\ CliIdle /\ GatewayIdle

NextEach == EachStep

SpecEach == InitEach /\ [][NextEach]_vars

\* The command line program, from the parsed arguments to the exit of the process.
InitCli == GroupIdle /\ AccessIdle /\ CliInit /\ GatewayIdle /\ EachIdle

NextCli ==
    \/ CliReject
    \/ CliRemove
    \/ CliSelect
    \/ cli_pc = "bulk" /\ Configure /\ UNCHANGED <<g_vars, v_vars, cli_vars, gw_vars, n_vars>>
    \/ cli_pc = "bulk" /\ DeleteStep /\ UNCHANGED <<g_vars, v_vars, cli_vars, gw_vars, n_vars>>
    \/ cli_pc = "bulk" /\ CreateStep /\ UNCHANGED <<g_vars, v_vars, cli_vars, gw_vars, n_vars>>
    \/ CliReturn

SpecCli == InitCli /\ [][NextCli]_vars

\* The bulk workflow entered either way: called by a program that uses the client as a
\* library, or by main.
InitEntry == Init \/ InitCli

NextEntry ==
    \/ CliReject
    \/ CliRemove
    \/ CliSelect
    \/ /\ cli_pc \in {"idle", "bulk"}
       /\ Configure
       /\ UNCHANGED <<g_vars, v_vars, cli_vars, gw_vars, n_vars>>
    \/ /\ cli_pc \in {"idle", "bulk"}
       /\ DeleteStep
       /\ UNCHANGED <<g_vars, v_vars, cli_vars, gw_vars, n_vars>>
    \/ /\ cli_pc \in {"idle", "bulk"}
       /\ CreateStep
       /\ UNCHANGED <<g_vars, v_vars, cli_vars, gw_vars, n_vars>>
    \/ CliReturn

SpecEntry == InitEntry /\ [][NextEntry]_vars

\* One call of one operation of the client.
InitGateway ==
    /\ GroupIdle
    /\ AccessIdle
    /\ GatewayInit
    /\ source_org_id = None
    /\ conn_arg = None
    /\ group_orgs = <<>>
    /\ connections = <<>>
    /\ integrations = <<>>
    /\ next_id = 0
    /\ BulkLocalsIdle
    /\ run = 0
    /\ first_final = NoFirstRun
    /\ CliIdle
    /\ EachIdle

NextGateway == GatewayCall

SpecGateway == InitGateway /\ [][NextGateway]_vars

\* The client used as a library: one call of an operation, or one run of the bulk
\* workflow.
InitClient == InitGateway \/ Init

NextClient ==
    \/ GatewayCall
    \/ gw_pc = "idle" /\ Configure /\ UNCHANGED <<g_vars, v_vars, cli_vars, gw_vars, n_vars>>
    \/ gw_pc = "idle" /\ DeleteStep /\ UNCHANGED <<g_vars, v_vars, cli_vars, gw_vars, n_vars>>
    \/ gw_pc = "idle" /\ CreateStep /\ UNCHANGED <<g_vars, v_vars, cli_vars, gw_vars, n_vars>>

SpecClient == InitClient /\ [][NextClient]_vars

(***************************************************************************)
(* The three workflows that configure organizations                        *)
(***************************************************************************)
\* One run of the bulk workflow, or one call of either loop that handles one
\* organization at a time.
InitRouting == Init \/ InitEach

NextRouting ==
    \/ n_pc = "idle" /\ Configure /\ UNCHANGED <<g_vars, v_vars, cli_vars, gw_vars, n_vars>>
    \/ n_pc = "idle" /\ DeleteStep /\ UNCHANGED <<g_vars, v_vars, cli_vars, gw_vars, n_vars>>
    \/ n_pc = "idle" /\ CreateStep /\ UNCHANGED <<g_vars, v_vars, cli_vars, gw_vars, n_vars>>
    \/ EachStep

SpecRouting == InitRouting /\ [][NextRouting]_vars

(***************************************************************************)
(* Vocabulary of the properties                                            *)
(***************************************************************************)
CallsOf(op) == SelectSeq(calls, LAMBDA c : c.op = op)
OrgsOf(records) == [k \in DOMAIN records |-> records[k].org_id]
IdsOf(records) == [k \in DOMAIN records |-> records[k].id]
Mutating(c) == c.op \in {"delete", "create"}

\* The group listing without the source organization, as a set and in listing order.
GroupMinusSource == Range(group_orgs) \ {source_org_id}
GroupMinusSourceSeq == SelectSeq(group_orgs, LAMBDA o : o \notin {source_org_id})

\* The run got past lines 691-719.
Passed == source_integration # <<>>

\* How many bindings an organization has on a connection.
BindingCount(ints, conn, org) ==
    Cardinality({k \in DOMAIN ints : ints[k].conn = conn /\ ints[k].org_id = org})

(***************************************************************************)
(* C1: no delete or create call of the bulk workflow names the source      *)
(* organization, and the creation pass iterates exactly the organizations  *)
(* of the group listing other than the source, each once.                  *)
(***************************************************************************)
C1_SourceNeverMutated ==
    /\ \A k \in DOMAIN calls : Mutating(calls[k]) => calls[k].org_id # source_org_id
    /\ Range(OrgsOf(CallsOf("validate"))) \subseteq GroupMinusSource
    /\ (pc = "done" /\ Passed) =>
          /\ NoDup(OrgsOf(CallsOf("validate")))
          /\ Range(OrgsOf(CallsOf("validate"))) = GroupMinusSource

\* A finished run over a group of three that holds the source, with a delete and a create.
C1_Witness ==
    /\ pc = "done"
    /\ Len(group_orgs) = 3
    /\ source_org_id \in Range(group_orgs)
    /\ CallsOf("delete") # <<>>
    /\ CallsOf("create") # <<>>

(***************************************************************************)
(* C2: after a run that put every target organization in the success       *)
(* bucket, the remote holds at most one integration per pair of connection *)
(* and organization, whatever the deletion calls answered.                 *)
(***************************************************************************)
AllTargetsSucceeded(res) ==
    /\ Range(OrgsOf(res.success)) = GroupMinusSource
    /\ res.failed = <<>>
    /\ res.skipped = <<>>

C2_AtMostOneBinding ==
    (/\ pc = "done"
     /\ Passed
     /\ source_org_id \in Range(group_orgs)
     /\ AllTargetsSucceeded(result)) =>
        \A c \in Conns, o \in Orgs : BindingCount(integrations, c, o) <= 1

(***************************************************************************)
(* C3: a second run with the same inputs, both runs having put every       *)
(* target in the success bucket, leaves the bindings the first run left:   *)
(* exactly one integration on the connection per target organization, of   *)
(* the source integration's type.                                          *)
(***************************************************************************)
TypedCount(ints, conn, org, type) ==
    Cardinality({k \in DOMAIN ints :
        ints[k].conn = conn /\ ints[k].org_id = org /\ ints[k].integration_type = type})

\* The target organizations are bound alike, integration ids aside.
SameBindings(ints1, ints2) ==
    \A c \in Conns, o \in GroupMinusSource, t \in Types :
        TypedCount(ints1, c, o, t) = TypedCount(ints2, c, o, t)

C3_Idempotent ==
    (/\ run = 2
     /\ pc = "done"
     /\ Passed
     /\ source_org_id \in Range(group_orgs)
     /\ AllTargetsSucceeded(result)
     /\ first_final.passed
     /\ AllTargetsSucceeded(first_final.result)) =>
        /\ SameBindings(integrations, first_final.integrations)
        /\ \A o \in GroupMinusSource :
              /\ BindingCount(integrations, broker_connection_id, o) = 1
              /\ TypedCount(integrations, broker_connection_id, o,
                            source_integration[1].integration_type) = 1

(***************************************************************************)
(* C4: when the pages reachable from the first one by the next links are   *)
(* all answered 200 and the last one has no next link, the listing returns *)
(* their records in server order, each once, across page boundaries; an    *)
(* empty page ends the listing with what the pages before it held.  With   *)
(* no empty page the call makes one request per page.                      *)
(***************************************************************************)
RECURSIVE ChainFrom(_, _)
\* The pages the next links chain together from page p on, up to a page already seen.
ChainFrom(p, seen) ==
    IF p = NoNext \/ p \in seen THEN <<>>
    ELSE <<p>> \o ChainFrom(pages[p].next, seen \cup {p})

Chain == ChainFrom(1, {})

\* The chain ends: its last page has no next link.
ChainEnds == pages[Chain[Len(Chain)]].next = NoNext

ChainOk == \A k \in DOMAIN Chain : pages[Chain[k]].status = 200

RECURSIVE Records(_)
\* The records of a sequence of pages, in order.
Records(ps) == IF ps = <<>> THEN <<>> ELSE pages[Head(ps)].data \o Records(Tail(ps))

\* The pages of the chain before its first empty page.
BeforeEmpty ==
    LET empties == {k \in DOMAIN Chain : pages[Chain[k]].data = <<>>}
        cut == IF empties = {} THEN Len(Chain) + 1
               ELSE CHOOSE k \in empties : \A j \in empties : k <= j
    IN SubSeq(Chain, 1, cut - 1)

C4_PaginationComplete ==
    (g_pc = "done" /\ ChainEnds /\ ChainOk) =>
        /\ g_result = Records(BeforeEmpty)
        /\ BeforeEmpty = Chain => (g_requests = Chain /\ g_result = Records(Chain))

\* Two pages with different records, both returned in order.
C4_Witness ==
    /\ g_pc = "done"
    /\ Chain = <<1, 2>>
    /\ ChainOk
    /\ pages[1].data = <<"A", "B">>
    /\ pages[2].data = <<"B">>
    /\ g_result = <<"A", "B", "B">>

(***************************************************************************)
(* C5: as soon as a page request is answered with a status other than 200  *)
(* the call returns the empty list, also when pages before it were         *)
(* answered 200 and held records; it does not raise.                       *)
(***************************************************************************)
ErrorAnswered ==
    \E k \in DOMAIN g_requests : pages[g_requests[k]].status \notin {0, 200}

C5_ErrorGivesEmpty ==
    ErrorAnswered => (g_pc = "done" /\ g_result = <<>>)

\* The second page is refused after the first one gave records.
C5_Witness ==
    /\ g_pc = "done"
    /\ g_requests = <<1, 2>>
    /\ pages[1].data # <<>>
    /\ pages[2].status = 403
    /\ g_result = <<>>

(***************************************************************************)
(* C6: the versions are tried in the order 2024-10-15, 2023-05-29,         *)
(* 2023-06-18, and the call returns true iff some version answers 200 and  *)
(* no version before it answered 401 or 403; 404 and other statuses move   *)
(* on to the next version, and false is returned when none answers 200.    *)
(***************************************************************************)
C6_AccessResult ==
    /\ v_requests = SubSeq(<<"2024-10-15", "2023-05-29", "2023-06-18">>, 1, Len(v_requests))
    /\ v_pc = "done" =>
          (v_result <=>
             \E k \in 1..3 : /\ v_resp[k] = 200
                             /\ \A j \in 1..(k - 1) : v_resp[j] \notin {401, 403})

\* The third version grants access after a 404 and a 500.
C6_Witness ==
    /\ v_pc = "done"
    /\ v_resp = <<404, 500, 200>>
    /\ v_result

(***************************************************************************)
(* C7: a response of 200, 401 or 403 is the last request of the call: the  *)
(* call has returned and no remaining version is requested.                *)
(***************************************************************************)
C7_DecisiveResponseIsLast ==
    \A k \in DOMAIN v_requests :
        v_resp[k] \in {200, 401, 403} => (k = Len(v_requests) /\ v_pc = "done")

\* Access is denied on the first version although the second would grant it.
C7_Witness ==
    /\ v_pc = "done"
    /\ v_resp[1] = 403
    /\ v_resp[2] = 200
    /\ v_requests = <<"2024-10-15">>
    /\ ~v_result

(***************************************************************************)
(* C8: when the group listing is empty, or no connection id is given and   *)
(* the source organization has no broker connection, or no integration on  *)
(* the connection belongs to the source organization, the call returns     *)
(* three empty buckets and has issued no delete and no create call.        *)
(***************************************************************************)
NoGroup == group_orgs = <<>>
NoConnection == conn_arg = None /\ connections = <<>>
NoSourceBinding ==
    /\ ~NoGroup
    /\ ~NoConnection
    /\ LET conn == IF conn_arg # None THEN conn_arg ELSE connections[1]
       IN BindingCount(integrations, conn, source_org_id) = 0

C9_DeletesOnlyTargets ==
    /\ \A k \in DOMAIN calls :
          (calls[k].op = "delete" /\ calls[k].ok # "raise") =>
             calls[k].org_id \in GroupMinusSource
    /\ (pc \in {"create", "done"} /\ Passed) =>
          \A k \in DOMAIN source_integrations :
             source_integrations[k].org_id \in GroupMinusSource =>
                source_integrations[k].id \in Range(IdsOf(CallsOf("delete")))

(***************************************************************************)
(* C10: a delete call that returns failure neither aborts the run nor      *)
(* shows in the result: every other integration of the listing is still    *)
(* given its delete call, the creation pass still handles every target     *)
(* organization, and the buckets record the outcomes of the creation pass  *)
(* only.                                                                   *)
(***************************************************************************)
FailedDelete == \E k \in DOMAIN calls : calls[k].op = "delete" /\ calls[k].ok = "false"

\* The integrations of the listing that are not the source organization's, by id.
ListedOthers ==
    IdsOf(SelectSeq(source_integrations, LAMBDA r : r.org_id \notin {source_org_id}))

C10_FailedDeleteGoesOn ==
    FailedDelete =>
        /\ pc = "raised" => calls[Len(calls)].ok = "raise"
        /\ pc = "done" =>
              /\ IdsOf(CallsOf("delete")) = ListedOthers
              /\ OrgsOf(CallsOf("validate")) = GroupMinusSourceSeq
              /\ Len(result.success) + Len(result.failed) + Len(result.skipped)
                    = Len(GroupMinusSourceSeq)
              /\ \A k \in DOMAIN result.success :
                    \E j \in DOMAIN calls :
                       /\ calls[j].op = "create"
                       /\ calls[j].org_id = result.success[k].org_id
                       /\ calls[j].ok = "true"
              /\ \A k \in DOMAIN result.failed :
                    \E j \in DOMAIN calls :
                       /\ calls[j].op \in {"validate", "create"}
                       /\ calls[j].org_id = result.failed[k].org_id
                       /\ calls[j].ok # "true"

\* The first of two deletes failed, the second was still issued, and a target succeeded.
C10_Witness ==
    /\ pc = "done"
    /\ Len(CallsOf("delete")) = 2
    /\ CallsOf("delete")[1].ok = "false"
    /\ result.success # <<>>

(***************************************************************************)
(* C11: the creation pass handles the target organizations in the order of *)
(* the group listing and validates access first.  A create call directly   *)
(* follows a validation of the same organization that returned true, and   *)
(* carries the connection of the run and the type of the source            *)
(* organization's integration.  A refused validation is followed by no     *)
(* create call and gives a failed record with reason 'Access denied'; a    *)
(* create call that returns true gives a success record, one that returns  *)
(* false a failed record.                                                  *)
(***************************************************************************)
\* The connection the run replicates, from the argument and the source's connections.
RunConnection == IF conn_arg # None THEN conn_arg ELSE connections[1]

\* The type of the first integration of the listing that is the source organization's.
SourceType ==
    LET ks == {k \in DOMAIN source_integrations :
                  source_integrations[k].org_id = source_org_id}
        first == CHOOSE k \in ks : \A m \in ks : k <= m
    IN source_integrations[first].integration_type

HasFailed(org, reason) ==
    \E k \in DOMAIN failed_list :
       failed_list[k].org_id = org /\ failed_list[k].reason = reason

HasSucceeded(org) == org \in Range(OrgsOf(success_list))

C11_ValidateThenCreate ==
    /\ Len(CallsOf("validate")) <= Len(GroupMinusSourceSeq)
    /\ \A k \in DOMAIN CallsOf("validate") :
          CallsOf("validate")[k].org_id = GroupMinusSourceSeq[k]
    /\ \A j \in DOMAIN calls :
          /\ calls[j].op = "create" =>
                /\ j > 1
                /\ calls[j - 1].op = "validate"
                /\ calls[j - 1].org_id = calls[j].org_id
                /\ calls[j - 1].ok = "true"
                /\ calls[j].conn = RunConnection
                /\ calls[j].type = SourceType
          /\ (calls[j].op = "create" /\ calls[j].ok = "true") =>
                /\ HasSucceeded(calls[j].org_id)
                /\ \A k \in DOMAIN failed_list : failed_list[k].org_id # calls[j].org_id
          /\ (calls[j].op = "create" /\ calls[j].ok = "false") =>
                /\ HasFailed(calls[j].org_id, "Failed to create broker integration")
                /\ ~HasSucceeded(calls[j].org_id)
          /\ (calls[j].op = "validate" /\ calls[j].ok = "false") =>
                /\ j < Len(calls) => calls[j + 1].op # "create"
                /\ HasFailed(calls[j].org_id, "Access denied")
                /\ ~HasSucceeded(calls[j].org_id)
          /\ (calls[j].op = "validate" /\ calls[j].ok = "true") =>
                /\ j < Len(calls)
                /\ calls[j + 1].op = "create"
                /\ calls[j + 1].org_id = calls[j].org_id

\* A finished run over two targets: the first refused, the second created, the listing
\* starting with an integration of another type than the source organization's.
C11_Witness ==
    /\ pc = "done"
    /\ Len(CallsOf("validate")) = 2
    /\ CallsOf("validate")[1].ok = "false"
    /\ CallsOf("validate")[2].ok = "true"
    /\ Len(CallsOf("create")) = 1
    /\ CallsOf("create")[1].ok = "true"
    /\ source_integrations[1].integration_type # SourceType

(***************************************************************************)
(* C12: an exception raised while one target organization is handled, by   *)
(* the validation or by the creation, does not leave the workflow: it is   *)
(* recorded as one failed record of that organization whose reason is the  *)
(* exception, every later target is still handled, and the call returns a  *)
(* result.                                                                 *)
(***************************************************************************)
RaisedInCreation ==
    \E j \in DOMAIN calls : calls[j].op \in {"validate", "create"} /\ calls[j].ok = "raise"

FailedCount(org) == Cardinality({k \in DOMAIN failed_list : failed_list[k].org_id = org})

C12_ExceptionIsOneFailure ==
    /\ CallsOf("validate") # <<>> => pc \in {"create", "done"}
    /\ \A j \in DOMAIN calls :
          (calls[j].op \in {"validate", "create"} /\ calls[j].ok = "raise") =>
             /\ HasFailed(calls[j].org_id, "exception")
             /\ FailedCount(calls[j].org_id) = 1
             /\ ~HasSucceeded(calls[j].org_id)
    /\ (RaisedInCreation /\ pc = "create") =>
          Len(CallsOf("validate")) = c_idx - 1
    /\ (RaisedInCreation /\ pc = "done") =>
          /\ OrgsOf(CallsOf("validate")) = GroupMinusSourceSeq
          /\ result.failed = failed_list
          /\ result.success = success_list

\* The validation of the first target raised, the creation for the second raised, and
\* the run returned both as failures.
C12_Witness ==
    /\ pc = "done"
    /\ Len(CallsOf("validate")) = 2
    /\ CallsOf("validate")[1].ok = "raise"
    /\ Len(CallsOf("create")) = 1
    /\ CallsOf("create")[1].ok = "raise"
    /\ Len(result.failed) = 2

(***************************************************************************)
(* C13: when the preconditions pass, the returned result holds exactly one *)
(* record per target organization: every target is in exactly one of the   *)
(* buckets success, failed and skipped, exactly once, no organization that *)
(* is not a target appears, the order inside each bucket follows the group *)
(* listing, and a record carries a reason exactly when it is not in the    *)
(* success bucket.                                                         *)
(***************************************************************************)
\* The position of an organization in the group listing.
ListingPos(org) == CHOOSE k \in DOMAIN group_orgs : group_orgs[k] = org

InListingOrder(records) ==
    \A k, m \in DOMAIN records :
       k < m => ListingPos(records[k].org_id) < ListingPos(records[m].org_id)

HasReason(record) == "reason" \in DOMAIN record

C13_OneRecordPerTarget ==
    (pc = "done" /\ Passed) =>
        LET everyone == OrgsOf(result.success) \o OrgsOf(result.failed)
                           \o OrgsOf(result.skipped)
        IN /\ NoDup(everyone)
           /\ Range(everyone) = GroupMinusSource
           /\ Len(everyone) = Len(GroupMinusSourceSeq)
           /\ InListingOrder(result.success)
           /\ InListingOrder(result.failed)
           /\ InListingOrder(result.skipped)
           /\ \A k \in DOMAIN result.success : ~HasReason(result.success[k])
           /\ \A k \in DOMAIN result.failed : HasReason(result.failed[k])
           /\ \A k \in DOMAIN result.skipped : HasReason(result.skipped[k])

\* A finished run over three listed organizations whose two targets ended in different
\* buckets.
C13_Witness ==
    /\ pc = "done"
    /\ Passed
    /\ Len(group_orgs) = 3
    /\ Len(result.success) = 1
    /\ Len(result.failed) = 1

(***************************************************************************)
(* C14: with the group listing [A, B, C], A the source and bound to the    *)
(* connection with type T, every organization accessible, any subset of    *)
(* the targets holding a stale integration on the connection, and the      *)
(* remote answering every call with success: the run deletes every stale   *)
(* target integration, every delete call precedes every create call, each  *)
(* target ends with one newly created integration of type T on the         *)
(* connection, and the result is success [B, C], failed [], skipped [].    *)
(***************************************************************************)
ScenarioABC ==
    /\ group_orgs = <<"A", "B", "C">>
    /\ source_org_id = "A"
    /\ Passed
    /\ \A k \in DOMAIN calls : calls[k].ok = "true"

\* The integrations an organization holds on a connection, by id.
BoundIds(ints, conn, org) ==
    {ints[k].id : k \in {m \in DOMAIN ints : ints[m].conn = conn /\ ints[m].org_id = org}}

C14_WorkedScenario ==
    ScenarioABC =>
        /\ \A j, k \in DOMAIN calls :
              (calls[j].op = "delete" /\ calls[k].op = "create") => j < k
        /\ pc = "done" =>
              /\ IdsOf(CallsOf("delete")) = ListedOthers
              /\ \A k \in DOMAIN integrations :
                    integrations[k].id \notin Range(ListedOthers)
              /\ \A o \in {"B", "C"} :
                    /\ BindingCount(integrations, RunConnection, o) = 1
                    /\ TypedCount(integrations, RunConnection, o, SourceType) = 1
                    /\ BoundIds(integrations, RunConnection, o)
                          \cap Range(IdsOf(source_integrations)) = {}
              /\ OrgsOf(result.success) = <<"B", "C">>
              /\ result.failed = <<>>
              /\ result.skipped = <<>>

\* The scenario run to its end with both targets holding a stale integration.
C14_Witness ==
    /\ ScenarioABC
    /\ pc = "done"
    /\ Len(CallsOf("delete")) = 2
    /\ Len(CallsOf("create")) = 2

(***************************************************************************)
(* C15: a removal run with --dry-run issues no delete call and returns,    *)
(* for each organization it reports, the number of integrations on the     *)
(* connection that a removal without --dry-run would then remove.          *)
(***************************************************************************)
RemovalExited(dry) ==
    /\ cli_pc = "exit"
    /\ args.remove_connection # None
    /\ args.dry_run = dry

C15_DryRunRemovalCounts ==
    RemovalExited(TRUE) =>
        /\ CallsOf("delete") = <<>>
        /\ cli_results # <<>>
        /\ \A k \in DOMAIN cli_results[1].success :
              cli_results[1].success[k].integrations_to_remove
                 = BindingCount(integrations, args.remove_connection,
                                cli_results[1].success[k].org_id)

(***************************************************************************)
(* C16: a removal run without --dry-run returns a result that places every *)
(* organization of the group in exactly one of the buckets success, failed *)
(* and not_found: not_found when it holds no integration on the            *)
(* connection, success with the number removed, failed with a reason.      *)
(***************************************************************************)
C16_RemovalBuckets ==
    RemovalExited(FALSE) =>
        /\ cli_results # <<>>
        /\ LET r == cli_results[1]
               everyone == OrgsOf(r.success) \o OrgsOf(r.failed) \o OrgsOf(r.not_found)
           IN /\ NoDup(everyone)
              /\ Range(everyone) = Range(group_orgs)
              /\ \A k \in DOMAIN r.success :
                    /\ r.success[k].integrations_removed >= 1
                    /\ BindingCount(integrations, args.remove_connection,
                                    r.success[k].org_id) = 0
              /\ \A k \in DOMAIN r.failed : HasReason(r.failed[k])

(***************************************************************************)
(* C17: without a tenant id, get_broker_integrations_for_connection,       *)
(* delete_broker_integration and create_broker_integration each raise      *)
(* before issuing any HTTP request.  As stated, the bulk workflow without  *)
(* a tenant id then always raises out before any delete or create call     *)
(* (C17_NoTenantRaises); as amended, it never makes a delete or create     *)
(* call, and raises out unless it has already returned three empty buckets *)
(* because the group listing is empty or no connection could be resolved   *)
(* (C17_NoTenantNoMutation).                                               *)
(***************************************************************************)
TenantOperationsRaiseFirst ==
    (/\ gw_pc = "done"
     /\ tenant_id = None
     /\ gw_op \in {"get_broker_integrations_for_connection", "delete_broker_integration",
                   "create_broker_integration"}) =>
        /\ gw_out = "raise"
        /\ gw_requests = 0

\* A run of the bulk workflow by a client without a tenant id, past its first step.
RunWithoutTenant ==
    /\ gw_pc = "idle"
    /\ tenant_id = None
    /\ pc # "idle"

NoMutatingCall == \A k \in DOMAIN calls : ~Mutating(calls[k])

C17_NoTenantRaises ==
    /\ TenantOperationsRaiseFirst
    /\ RunWithoutTenant => (pc = "raised" /\ NoMutatingCall)

C17_NoTenantNoMutation ==
    /\ TenantOperationsRaiseFirst
    /\ RunWithoutTenant =>
          /\ NoMutatingCall
          /\ IF group_orgs = <<>> \/ (conn_arg = None /\ connections = <<>>)
             THEN pc = "done" /\ result = EmptyResult
             ELSE pc = "raised"

\* A client without a tenant id ran the bulk workflow on a group with targets and a
\* connection, and the run raised.
C17_Witness ==
    /\ RunWithoutTenant
    /\ pc = "raised"
    /\ Len(group_orgs) > 1
    /\ connections # <<>>
    /\ integrations # <<>>

(***************************************************************************)
(* C18: an operation of the client never raises on a response whose status *)
(* is not 2xx: a list operation returns the empty list, a boolean          *)
(* operation returns false and an optional-record operation returns None.  *)
(* create_broker_integration returns true exactly on 201 and               *)
(* delete_broker_integration exactly on 204.                               *)
(***************************************************************************)
SuccessStatus(status) == status >= 200 /\ status <= 299

\* The call sent its request and the server answered it.
Answered == gw_pc = "done" /\ gw_requests > 0 /\ ~Raised(gw_status)

C18_NonSuccessIsFalsy ==
    Answered =>
        /\ ~SuccessStatus(gw_status) =>
              /\ gw_op \in ListOps => gw_out = "[]"
              /\ gw_op \in BooleanOps => gw_out = "false"
              /\ gw_op \in OptionalOps => gw_out = "None"
        /\ gw_op = "create_broker_integration" => (gw_out = "true" <=> gw_status = 201)
        /\ gw_op = "delete_broker_integration" => (gw_out = "true" <=> gw_status = 204)
        /\ gw_out # "raise"

\* A creation the server refused with 409 returned False.
C18_Witness ==
    /\ Answered
    /\ gw_op = "create_broker_integration"
    /\ gw_status = 409
    /\ gw_out = "false"

(***************************************************************************)
(* C19: the process exits with status 0 whenever the selected workflow     *)
(* runs to completion, also when organizations ended in the failed bucket, *)
(* and with status 1 only when an exception reached the handler of main.   *)
(***************************************************************************)
\* parser.error ended the process before a workflow was selected.
Rejected == args.remove_connection = None /\ source_org_id = None

C19_ExitStatus ==
    cli_pc = "exit" =>
        /\ exit_code \in {0, 1, 2}
        /\ exit_code = 2 <=> Rejected
        /\ exit_code = 1 => cli_error # None
        /\ (cli_error = None /\ ~Rejected) => exit_code = 0
        /\ cli_results # <<>> => exit_code = 0
        /\ (args.remove_connection = None /\ pc = "done") => exit_code = 0
        /\ pc = "raised" => exit_code = 1

\* A configuration run that reported a failed organization and exited with status 0.
C19_Witness ==
    /\ cli_pc = "exit"
    /\ exit_code = 0
    /\ cli_results # <<>>
    /\ cli_results[1].failed # <<>>
    /\ cli_results[1].success # <<>>

(***************************************************************************)
(* C20: when no connection id is given, the connection replicated is the   *)
(* first connection of the source organization in the order returned, in   *)
(* the bulk workflow called directly and in the selection step of main;    *)
(* when one is given, every delete and create call of the run uses it.     *)
(***************************************************************************)
AllMutatingCallsOn(conn) ==
    \A k \in DOMAIN calls : Mutating(calls[k]) => calls[k].conn = conn

C20_ConnectionChoice ==
    /\ cli_pc = "idle" =>
          /\ (conn_arg = None /\ pc # "idle" /\ group_orgs # <<>> /\ connections # <<>>) =>
                /\ broker_connection_id = connections[1]
                /\ AllMutatingCallsOn(connections[1])
          /\ (conn_arg = None /\ connections = <<>>) => calls = <<>>
          /\ conn_arg # None => AllMutatingCallsOn(conn_arg)
    /\ cli_pc # "idle" =>
          /\ (args.broker_connection_id = None /\ selected_connection # None) =>
                /\ selected_connection = connections[1]
                /\ AllMutatingCallsOn(connections[1])
          /\ args.broker_connection_id # None =>
                /\ selected_connection \in {None, args.broker_connection_id}
                /\ AllMutatingCallsOn(args.broker_connection_id)

\* Main chose the first of two connections by itself and the run created on it.
C20_Witness ==
    /\ cli_pc = "exit"
    /\ args.broker_connection_id = None
    /\ Len(connections) = 2
    /\ selected_connection = connections[1]
    /\ CallsOf("create") # <<>>
    /\ CallsOf("delete") # <<>>

(***************************************************************************)
(* C24: in configuration mode main issues no delete and no create call     *)
(* with --dry-run, and none without it either when there is no target      *)
(* organization, when the source organization has no broker connection, or *)
(* when --broker-connection-id names a connection the source organization  *)
(* does not have.                                                          *)
(***************************************************************************)
\* The bulk workflow was never entered and the remote is as the bulk workflow would
\* find it before its first call.
NothingMutated ==
    /\ NoMutatingCall
    /\ calls = <<>>
    /\ pc = "idle"
    /\ next_id = Len(integrations) + 1
    /\ integrations \in InitialIntegrations

C24_DryRunMutatesNothing ==
    (cli_pc # "idle" /\ args.remove_connection = None) =>
        /\ args.dry_run => NothingMutated
        /\ GroupMinusSourceSeq = <<>> => NothingMutated
        /\ connections = <<>> => NothingMutated
        /\ (args.broker_connection_id # None
               /\ args.broker_connection_id \notin Range(connections)) => NothingMutated

\* A dry run over a group with targets, whose source is bound to the chosen connection
\* and whose targets hold stale integrations, ended with nothing touched.
C24_Witness ==
    /\ cli_pc = "exit"
    /\ args.remove_connection = None
    /\ args.dry_run
    /\ exit_code = 0
    /\ selected_connection = "c1"
    /\ Len(GroupMinusSourceSeq) = 2
    /\ Len(integrations) = 3
    /\ NothingMutated

(***************************************************************************)
(* C26: for every target organization the bulk workflow records in failed, *)
(* the integrations bound to that organization on the connection after the *)
(* run are the ones bound to it before the run.                            *)
(***************************************************************************)
\* The integrations of an organization in the listing taken at line 710, by id: what
\* it held on the connection before the run.
ListedIds(org) ==
    {source_integrations[k].id :
        k \in {m \in DOMAIN source_integrations : source_integrations[m].org_id = org}}

C26_FailedOrgUnchanged ==
    (pc = "done" /\ Passed) =>
        \A k \in DOMAIN result.failed :
           BoundIds(integrations, RunConnection, result.failed[k].org_id)
              = ListedIds(result.failed[k].org_id)

(***************************************************************************)
(* C25: validate_organization_access issues at most 3 requests and always  *)
(* ends; get_organizations_for_group ends for every sequence of responses  *)
(* in which no next link leads back to a page already fetched.  As stated, *)
(* it then ends after exactly P requests when the chain of next links has  *)
(* P pages (C25_OneRequestPerPage); as amended, after exactly P requests   *)
(* when no page before the last one is empty, and at the first empty page  *)
(* otherwise (C25_LoopsEnd).  A loop ends by returning or by a request     *)
(* that raises.                                                            *)
(***************************************************************************)
Ended(p) == p \in {"done", "raised"}

\* The position in the chain of its first empty page before the last one, or 0.
FirstEmptyPage ==
    LET empties == {k \in 1..(Len(Chain) - 1) : pages[Chain[k]].data = <<>>}
    IN IF empties = {} THEN 0 ELSE CHOOSE k \in empties : \A j \in empties : k <= j

AccessLoopEnds ==
    /\ [](Len(v_requests) <= 3)
    /\ (v_pc = "loop") ~> Ended(v_pc)

GroupLoopEnds == (g_pc = "loop" /\ ChainEnds) ~> Ended(g_pc)

C25_OneRequestPerPage ==
    /\ AccessLoopEnds
    /\ GroupLoopEnds
    /\ []((Ended(g_pc) /\ ChainEnds) => Len(g_requests) = Len(Chain))

C25_LoopsEnd ==
    /\ AccessLoopEnds
    /\ GroupLoopEnds
    /\ []((Ended(g_pc) /\ ChainEnds) =>
            IF FirstEmptyPage = 0
            THEN g_requests = Chain
            ELSE g_requests = SubSeq(Chain, 1, FirstEmptyPage))

\* Two pages with records, fetched with two requests.
C25_Witness ==
    /\ g_pc = "done"
    /\ ChainEnds
    /\ Chain = <<1, 2>>
    /\ g_requests = <<1, 2>>
    /\ pages[1].data = <<"A">>
    /\ pages[2].data = <<"A">>

(***************************************************************************)
(* C22: _configure_broker_for_org returns True when the source             *)
(* organization is bound to the connection, every delete of the target     *)
(* organization's integrations on that connection succeeds and the create  *)
(* call answers 201; the target organization then holds one integration of *)
(* the source integration's type on the connection.                        *)
(***************************************************************************)
\* The iterations of configure_broker_for_organizations in which the server stood ready
\* to answer 201 to the create call of line 1005.
ReadyToCreate ==
    {k \in DOMAIN n_log :
        /\ n_fn = "configure_broker_for_organizations"
        /\ n_log[k].access = "true"
        /\ n_log[k].source_bound
        /\ n_log[k].deletes_ok
        /\ n_log[k].create_status = 201}

C22_ConfigureReturnsTrue ==
    \A k \in ReadyToCreate :
       /\ n_log[k].returned = "true"
       /\ BindingCount(integrations, conn_arg, n_log[k].org_id) = 1

(***************************************************************************)
(* C23: in configure_broker_for_organizations and mass_configure_broker an *)
(* exception raised while one organization is processed becomes a failed   *)
(* record of that organization, and the call never propagates it.          *)
(***************************************************************************)
RaisedInBody(entry) ==
    entry.access = "raise" \/ entry.returned = "raise" \/ entry.name_raised

C23_ExceptionIsolated ==
    /\ n_pc # "raised"
    /\ \A k \in DOMAIN n_log :
          RaisedInBody(n_log[k]) =>
             FailedRecord(n_log[k].org_id, "Exception") \in Range(n_results.failed)

(***************************************************************************)
(* C21: the bulk workflow records an organization whose access validation  *)
(* fails under failed and its skipped list is always empty;                *)
(* configure_broker_for_organizations and mass_configure_broker record     *)
(* such an organization under skipped.  As stated, never under failed      *)
(* (C21_RefusedIsSkipped); as amended, under skipped and not under failed  *)
(* when the skipped record gets built, which in                            *)
(* configure_broker_for_organizations takes a name lookup that can raise:  *)
(* the organization is then nowhere in skipped, and is under failed when   *)
(* the exception handler completes (C21_AccessRouting).                    *)
(***************************************************************************)
Refused(entry) == entry.access = "false"

InBucket(bucket, org) == org \in Range(OrgsOf(n_results[bucket]))

BulkRefusedIsFailed ==
    /\ \A k \in DOMAIN calls :
          (calls[k].op = "validate" /\ calls[k].ok = "false") =>
             HasFailed(calls[k].org_id, "Access denied")
    /\ pc = "done" => result.skipped = <<>>

C21_RefusedIsSkipped ==
    /\ BulkRefusedIsFailed
    /\ \A k \in DOMAIN n_log :
          Refused(n_log[k]) =>
             /\ InBucket("skipped", n_log[k].org_id)
             /\ ~InBucket("failed", n_log[k].org_id)

C21_AccessRouting ==
    /\ BulkRefusedIsFailed
    /\ \A k \in DOMAIN n_log :
          Refused(n_log[k]) =>
             /\ n_log[k].name_raised => n_fn = "configure_broker_for_organizations"
             /\ ~n_log[k].name_raised =>
                   /\ FailedRecord(n_log[k].org_id, "Organization not accessible")
                         \in Range(n_results.skipped)
                   /\ ~InBucket("failed", n_log[k].org_id)
             /\ n_log[k].name_raised =>
                   /\ ~InBucket("skipped", n_log[k].org_id)
                   /\ ~n_log[k].handler_raised =>
                         FailedRecord(n_log[k].org_id, "Exception")
                            \in Range(n_results.failed)

\* configure_broker_for_organizations was refused access to two organizations: the first
\* is in skipped, the name lookup for the second raised and it is in failed.
C21_Witness ==
    /\ n_pc = "done"
    /\ n_fn = "configure_broker_for_organizations"
    /\ Len(n_log) = 2
    /\ Refused(n_log[1]) /\ ~n_log[1].name_raised
    /\ Refused(n_log[2]) /\ n_log[2].name_raised /\ ~n_log[2].handler_raised
====
